---- MODULE Spec2Model ----
(***************************************************************************)
(* graphnet truth extraction: I3Extractor, I3ExtractorCollection and       *)
(* I3TruthExtractor as a state machine.                                     *)
(*                                                                         *)
(* Conventions.                                                            *)
(*  - A Python str is a sequence of one-character strings, so that the     *)
(*    substring test `a in b` and str.lower() are computed, not assumed.   *)
(*  - None (for the extractor's attributes) is the one-element sequence    *)
(*    <<"None">>, which is no str.                                         *)
(*  - A frame (event record) is a function from the keys it holds to their *)
(*    values: `key in frame` is key \in DOMAIN frame.                      *)
(*  - A call's outcome is a record [exc, value]: exc = "" for a return,    *)
(*    else the name of the exception that escapes.                         *)
(*  - Lengths are integers in metres, angles are integers in quarter turns *)
(*    (pi/2), for which cos and sin are exact.                             *)
(***************************************************************************)
EXTENDS Integers, Sequences, FiniteSets, TLC

VARIABLES
    extractor,      \* the I3TruthExtractor instance (its attributes)
    collection,     \* the I3ExtractorCollection: whether one is built, its members
    event,          \* the event record (frame) handed to the extractor
    args,           \* arguments of the most recent operation
    ret,            \* outcome of the most recent operation
    ncalls,         \* number of __call__ invocations so far
    member_calls,   \* set_files calls received by collection members, in order
    filesystem      \* the files on disk that find_i3_files searches

vars == <<extractor, collection, event, args, ret, ncalls, member_calls,
          filesystem>>

None == <<"None">>

\* ------------------------------------------------------------------ bounds
\* Longest file path, in path words.
MaxPathWords == 2
\* Number of __call__ invocations explored per behaviour.
MaxCalls == 2
\* Largest collection built.
MaxMembers == 2
\* Most daughters of the first primary, and of one of its daughters.
MaxDaughters == 3
MaxGranddaughters == 2

\* ----------------------------------------------------------------- strings
s_muon    == <<"m", "u", "o", "n">>
s_corsika == <<"c", "o", "r", "s", "i", "k", "a">>
s_genie   == <<"g", "e", "n", "i", "e">>
s_nu      == <<"n", "u">>
s_noise   == <<"n", "o", "i", "s", "e">>
s_L2      == <<"L", "2">>

\* Python `sub in s` for two str.
In(sub, s) ==
    \E i \in 1..(Len(s) - Len(sub) + 1) : SubSeq(s, i, i + Len(sub) - 1) = sub

\* str.lower() on the characters that occur in the modelled paths.
LowerChar(c) ==
    CASE c = "N" -> "n"
      [] c = "U" -> "u"
      [] c = "L" -> "l"
      [] c = "M" -> "m"
      [] c = "G" -> "g"
      [] c = "C" -> "c"
      [] c = "D" -> "d"
      [] OTHER -> c

Lower(s) == [i \in 1..Len(s) |-> LowerChar(s[i])]

\* ------------------------------------------------------------ outcomes
NoValue == [none |-> TRUE]
Return(v) == [exc |-> "", value |-> v]
Raise(e) == [exc |-> e, value |-> NoValue]

\* ------------------------------------------------- I3TruthExtractor helpers
\* Variant: the corsika rule tried before the muon rule.
find_data_type_unordered(mc, input_file) ==
    LET t0 == IF ~mc THEN "data" ELSE "NuGen"
        t1 == IF In(s_corsika, input_file) THEN "corsika" ELSE t0
        t2 == IF In(s_muon, input_file) THEN "muongun" ELSE t1
        t3 == IF In(s_genie, input_file) \/ In(s_nu, Lower(input_file))
              THEN "genie" ELSE t2
        t4 == IF In(s_noise, input_file) THEN "noise" ELSE t3
        t5 == IF In(s_L2, input_file) THEN "dbang" ELSE t4
    IN  t5

\* _find_data_type(mc, input_file), for a str input_file.
find_data_type(mc, input_file) ==
    LET t0 == IF ~mc THEN "data" ELSE "NuGen"
        t1 == IF In(s_muon, input_file) THEN "muongun" ELSE t0
        t2 == IF In(s_corsika, input_file) THEN "corsika" ELSE t1
        t3 == IF In(s_genie, input_file) \/ In(s_nu, Lower(input_file))
              THEN "genie" ELSE t2
        t4 == IF In(s_noise, input_file) THEN "noise" ELSE t3
        t5 == IF In(s_L2, input_file) THEN "dbang" ELSE t4
    IN  t5

\* --------------------------------------------------------------- numbers
\* float('nan'): the one energy value for which `e != e` (line 312) holds.
NaN == -999999

IsNaN(v) == v = NaN

\* float addition: nan is absorbing.
FAdd(a, b) == IF IsNaN(a) \/ IsNaN(b) THEN NaN ELSE a + b

\* int(bool): True -> 1, False -> 0.
int(b) == IF b THEN 1 ELSE 0

Abs(n) == IF n < 0 THEN -n ELSE n

\* Integer square root; the positions drawn keep every distance integral.
ISqrt(n) == CHOOSE r \in 0..n : r * r <= n /\ (r + 1) * (r + 1) > n

\* numpy cos and sin at k quarter turns.
Cos(k) == CASE k % 4 = 0 -> 1 [] k % 4 = 1 -> 0 [] k % 4 = 2 -> -1 [] OTHER -> 0
Sin(k) == CASE k % 4 = 0 -> 0 [] k % 4 = 1 -> 1 [] k % 4 = 2 -> 0 [] OTHER -> -1

\* dict.update: keys of e are added to d or overwrite d's.
Update(d, e) ==
    [k \in DOMAIN d \cup DOMAIN e |-> IF k \in DOMAIN e THEN e[k] ELSE d[k]]

\* ------------------------------------------------------------ I3MCTree
\* A tree is [parts, parent]: its particles in tree (pre-)order and, for each,
\* the position of its parent (0 for a primary). A particle's id is its
\* position in the tree.

\* The particles of t whose parent is at position par, in tree order. The
\* bindings hand out copies: a list of particle values.
Children(t, par) ==
    LET F[i \in 0..Len(t.parts)] ==
            IF i = 0 THEN <<>>
            ELSE IF t.parent[i] = par THEN Append(F[i - 1], t.parts[i])
            ELSE F[i - 1]
    IN  F[Len(t.parts)]

\* mctree.primaries
primaries(mctree) == Children(mctree, 0)

\* mctree.get_daughters(p)
get_daughters(mctree, p) == Children(mctree, p.id)

\* phys_services.I3Calculator.distance(a, b) / icetray.I3Units.m
distance(a, b) ==
    ISqrt((a.pos.x - b.pos.x) * (a.pos.x - b.pos.x)
          + (a.pos.y - b.pos.y) * (a.pos.y - b.pos.y)
          + (a.pos.z - b.pos.z) * (a.pos.z - b.pos.z))

Max(S) == CHOOSE m \in S : \A n \in S : n <= m
Min(S) == CHOOSE m \in S : \A n \in S : m <= n

\* The merge loop of lines 212-221 on the local list hnl_daughters: ok is
\* FALSE when the assert of line 218 fails; casc_1_true is the list's first
\* particle with the energies of the others added to it.
merge_hnl_daughters(hnl_daughters) ==
    LET E[k \in 1..Len(hnl_daughters)] ==
            IF k = 1 THEN hnl_daughters[1].energy
            ELSE FAdd(E[k - 1], hnl_daughters[k].energy)
    IN  [ok |-> \A k \in 2..Len(hnl_daughters) :
                    hnl_daughters[k].pos = hnl_daughters[1].pos,
         casc_1_true |-> [hnl_daughters[1] EXCEPT
                            !.energy = E[Len(hnl_daughters)]]]

\* Variant: without the try/except of lines 197 and 232.
extract_dbang_decay_length_unguarded(frame, padding_value) ==
    IF "I3MCTree" \notin DOMAIN frame THEN Raise("KeyError")
    ELSE
    LET mctree == frame["I3MCTree"]
        prims == primaries(mctree)
    IN  IF Len(prims) = 0 THEN Raise("IndexError")
        ELSE
        LET p_daughters == get_daughters(mctree, prims[1])
            hadrons == {k \in 1..Len(p_daughters) : p_daughters[k].type = "Hadrons"}
            others == (1..Len(p_daughters)) \ hadrons
        IN  IF Len(p_daughters) # 2 THEN Return(padding_value)
            ELSE IF others = {} THEN Raise("UnboundLocalError")
            ELSE
            LET hnl_daughters == get_daughters(mctree, p_daughters[Max(others)])
                merged == merge_hnl_daughters(hnl_daughters)
            IN  IF Len(hnl_daughters) = 0 THEN Return(padding_value)
                ELSE IF ~merged.ok THEN Raise("AssertionError")
                ELSE IF hadrons = {} THEN Raise("UnboundLocalError")
                ELSE Return(distance(p_daughters[Max(hadrons)], merged.casc_1_true))

\* _extract_dbang_decay_length(frame, padding_value), lines 195-233.
extract_dbang_decay_length(frame, padding_value) ==
    \* line 196 is outside the try
    IF "I3MCTree" \notin DOMAIN frame THEN Raise("KeyError")
    ELSE
    LET mctree == frame["I3MCTree"]
        prims == primaries(mctree)
    IN  \* primaries[0] of an empty tree: IndexError, caught at line 232
        IF Len(prims) = 0 THEN Return(padding_value)
        ELSE
        LET p_true == prims[1]
            p_daughters == get_daughters(mctree, p_true)
            \* lines 201-205: the last daughter of each kind stays bound
            hadrons == {k \in 1..Len(p_daughters) : p_daughters[k].type = "Hadrons"}
            others == (1..Len(p_daughters)) \ hadrons
        IN  IF Len(p_daughters) # 2 THEN Return(padding_value)
            \* line 206: hnl_true unbound, caught
            ELSE IF others = {} THEN Return(padding_value)
            ELSE
            LET hnl_true == p_daughters[Max(others)]
                hnl_daughters == get_daughters(mctree, hnl_true)
                merged == merge_hnl_daughters(hnl_daughters)
            IN  IF Len(hnl_daughters) = 0 THEN Return(padding_value)
                \* line 218: AssertionError, caught
                ELSE IF ~merged.ok THEN Return(padding_value)
                \* line 224: casc_0_true unbound, caught
                ELSE IF hadrons = {} THEN Return(padding_value)
                ELSE Return(distance(p_daughters[Max(hadrons)], merged.casc_1_true))

\* ------------------------------------------------------ fiducial volume
\* Defaults of _muon_stopped's horizontal_pad and vertical_pad, in metres.
horizontal_pad == 100
vertical_pad == 100

\* matplotlib.path.Path(border).contains_point(point, radius): the outlines
\* drawn are axis-aligned rectangles listed counter-clockwise (the default
\* outline's orientation); a negative radius moves each edge inwards.
contains_point(border, point, radius) ==
    LET xs == {border[k][1] : k \in 1..Len(border)}
        ys == {border[k][2] : k \in 1..Len(border)}
    IN  /\ Min(xs) - radius < point[1]
        /\ point[1] < Max(xs) + radius
        /\ Min(ys) - radius < point[2]
        /\ point[2] < Max(ys) + radius

\* Variant: the depth test with >= and <=.
muon_stopped_inclusive(truth, borders) ==
    LET end_pos == <<truth["position_x"] - truth["track_length"]
                        * Cos(truth["azimuth"]) * Sin(truth["zenith"]),
                     truth["position_y"] - truth["track_length"]
                        * Sin(truth["azimuth"]) * Sin(truth["zenith"]),
                     truth["position_z"] - truth["track_length"]
                        * Cos(truth["zenith"])>>
    IN  [x |-> end_pos[1], y |-> end_pos[2], z |-> end_pos[3],
         stopped |-> int(contains_point(borders[1], <<end_pos[1], end_pos[2]>>,
                                        -horizontal_pad)
                         /\ end_pos[3] >= borders[2][1] + vertical_pad
                         /\ end_pos[3] <= borders[2][2] - vertical_pad)]

\* _muon_stopped(truth, borders), lines 235-285. borders[1] is the xy outline,
\* borders[2] the pair (z_min, z_max).
muon_stopped(truth, borders) ==
    LET border == borders[1]
        start_pos == <<truth["position_x"], truth["position_y"],
                       truth["position_z"]>>
        travel_vec ==
            <<-1 * (truth["track_length"] * Cos(truth["azimuth"])
                        * Sin(truth["zenith"])),
              -1 * (truth["track_length"] * Sin(truth["azimuth"])
                        * Sin(truth["zenith"])),
              -1 * (truth["track_length"] * Cos(truth["zenith"]))>>
        end_pos == [k \in 1..3 |-> start_pos[k] + travel_vec[k]]
        stopped_xy == contains_point(border, <<end_pos[1], end_pos[2]>>,
                                     -horizontal_pad)
        stopped_z == /\ end_pos[3] > borders[2][1] + vertical_pad
                     /\ end_pos[3] < borders[2][2] - vertical_pad
    IN  [x |-> end_pos[1], y |-> end_pos[2], z |-> end_pos[3],
         stopped |-> int(stopped_xy /\ stopped_z)]

\* ------------------------------------------------------ primary particle
\* The value of MCInIcePrimary at line 318.
NoneParticle == [none |-> TRUE]
IsNoneParticle(p) == "none" \in DOMAIN p

\* frame["I3MCTree"][k], k counted from 0.
tree_item(frame, k) ==
    IF "I3MCTree" \notin DOMAIN frame THEN Raise("KeyError")
    ELSE IF k + 1 > Len(frame["I3MCTree"].parts) THEN Raise("IndexError")
    ELSE Return(frame["I3MCTree"].parts[k + 1])

\* _get_primary_particle_interaction_type_and_elasticity(frame, sim_type,
\* padding_value), lines 287-329.
get_primary_particle_interaction_type_and_elasticity(frame, sim_type, padding_value) ==
    LET first == IF "MCInIcePrimary" \in DOMAIN frame
                 THEN Return(frame["MCInIcePrimary"])
                 ELSE tree_item(frame, 0)
        MCInIcePrimary ==
            IF sim_type # "noise"
            THEN IF first.exc # "" THEN first
                 ELSE IF IsNaN(first.value.energy) THEN tree_item(frame, 1)
                 ELSE first
            ELSE Return(NoneParticle)
        interaction_type ==
            IF /\ "I3MCWeightDict" \in DOMAIN frame
               /\ "InteractionType" \in DOMAIN frame["I3MCWeightDict"]
            THEN frame["I3MCWeightDict"]["InteractionType"]
            ELSE padding_value
        elasticity ==
            IF /\ "I3GENIEResultDict" \in DOMAIN frame
               /\ "y" \in DOMAIN frame["I3GENIEResultDict"]
            THEN frame["I3GENIEResultDict"]["y"]
            ELSE padding_value
    IN  IF MCInIcePrimary.exc # "" THEN MCInIcePrimary
        ELSE Return([MCInIcePrimary |-> MCInIcePrimary.value,
                     interaction_type |-> interaction_type,
                     elasticity |-> elasticity])

\* sum(track.total_energy for track in tracks)
SumTotalEnergy(tracks) ==
    LET S[k \in 0..Len(tracks)] ==
            IF k = 0 THEN 0 ELSE S[k - 1] + tracks[k].total_energy
    IN  S[Len(tracks)]

IsTrack(daughter) == daughter.shape = "StartingTrack" \/ daughter.shape = "Dark"

\* _get_primary_track_energy_and_inelasticity(frame), lines 331-359. The
\* energies drawn make energy_track / energy_total integral.
get_primary_track_energy_and_inelasticity(frame) ==
    IF "I3MCTree" \notin DOMAIN frame THEN Raise("KeyError")
    ELSE
    LET mc_tree == frame["I3MCTree"]
    IN  IF Len(primaries(mc_tree)) = 0 THEN Raise("IndexError")
        ELSE
        LET primary == primaries(mc_tree)[1]
            daughters == get_daughters(mc_tree, primary)
            tracks == SelectSeq(daughters, IsTrack)
            energy_total == primary.total_energy
            energy_track == SumTotalEnergy(tracks)
        IN  IF energy_total = 0 THEN Raise("ZeroDivisionError")
            ELSE Return([energy_track |-> energy_track,
                         inelasticity |-> 1 - energy_track \div energy_total])

\* ------------------------------------------------ I3TruthExtractor.__call__
\* graphnet.data.extractors.utilities: the record's Monte-Carlo and noise
\* flags.
frame_is_montecarlo(frame) == frame["is_montecarlo"]
frame_is_noise(frame) == frame["is_noise"]

\* Default of padding_value in __call__ (line 65) and in
\* _get_primary_particle_interaction_type_and_elasticity (line 288).
default_padding_value == -1

FilterNames ==
    {"DeepCoreFilter_13", "CascadeFilter_13", "MuonFilter_13", "OnlineL2Filter_17"}

LevelNames ==
    {"L3_oscNext_bool", "L4_oscNext_bool", "L5_oscNext_bool", "L6_oscNext_bool",
     "L7_oscNext_bool"}

\* The dict literal of lines 71-101.
initial_output(frame, sim_type, padding_value) ==
    [energy |-> padding_value,
     position_x |-> padding_value,
     position_y |-> padding_value,
     position_z |-> padding_value,
     azimuth |-> padding_value,
     zenith |-> padding_value,
     pid |-> padding_value,
     event_time |-> frame["I3EventHeader"].start_time,
     sim_type |-> sim_type,
     interaction_type |-> padding_value,
     elasticity |-> padding_value,
     RunID |-> frame["I3EventHeader"].run_id,
     SubrunID |-> frame["I3EventHeader"].sub_run_id,
     EventID |-> frame["I3EventHeader"].event_id,
     SubEventID |-> frame["I3EventHeader"].sub_event_id,
     dbang_decay_length |-> padding_value,
     track_length |-> padding_value,
     stopped_muon |-> padding_value,
     energy_track |-> padding_value,
     inelasticity |-> padding_value,
     DeepCoreFilter_13 |-> padding_value,
     CascadeFilter_13 |-> padding_value,
     MuonFilter_13 |-> padding_value,
     OnlineL2Filter_17 |-> padding_value,
     L3_oscNext_bool |-> padding_value,
     L4_oscNext_bool |-> padding_value,
     L5_oscNext_bool |-> padding_value,
     L6_oscNext_bool |-> padding_value,
     L7_oscNext_bool |-> padding_value]

\* Variant: the top-level DeepCoreFilter_13 also used when the FilterMask
\* lacks that filter.
filter_flags_with_fallback(frame) ==
    LET from_mask ==
            IF "FilterMask" \in DOMAIN frame
            THEN [k \in FilterNames \cap DOMAIN frame["FilterMask"] |->
                    int(frame["FilterMask"][k])]
            ELSE <<>>
        legacy ==
            IF /\ "DeepCoreFilter_13" \in DOMAIN frame
               /\ "DeepCoreFilter_13" \notin DOMAIN from_mask
            THEN [k \in {"DeepCoreFilter_13"} |-> int(frame["DeepCoreFilter_13"])]
            ELSE <<>>
        levels == [k \in LevelNames \cap DOMAIN frame |-> int(frame[k])]
    IN  Update(Update(from_mask, legacy), levels)

\* Lines 109-143: the entries the filter and level flags assign.
filter_flags(frame) ==
    LET from_mask ==
            IF "FilterMask" \in DOMAIN frame
            THEN [k \in FilterNames \cap DOMAIN frame["FilterMask"] |->
                    int(frame["FilterMask"][k])]
            ELSE IF "DeepCoreFilter_13" \in DOMAIN frame
            THEN [k \in {"DeepCoreFilter_13"} |-> int(frame["DeepCoreFilter_13"])]
            ELSE <<>>
        levels == [k \in LevelNames \cap DOMAIN frame |-> int(frame[k])]
    IN  Update(from_mask, levels)

\* Variant: the stopped flag stored under the key "stopped".
muon_update_misnamed(self, MCInIcePrimary, output) ==
    IF Abs(output["pid"]) = 13
    THEN LET with_length == Update(output, [track_length |-> MCInIcePrimary.length])
             muon_final == muon_stopped(with_length, self.borders)
         IN  Update(with_length,
                    [position_x |-> muon_final.x,
                     position_y |-> muon_final.y,
                     position_z |-> muon_final.z,
                     stopped |-> muon_final.stopped])
    ELSE output

\* Lines 175-191: the muon's track length and stopping point.
muon_update(self, MCInIcePrimary, output) ==
    IF Abs(output["pid"]) = 13
    THEN LET with_length == Update(output, [track_length |-> MCInIcePrimary.length])
             muon_final == muon_stopped(with_length, self.borders)
         IN  Update(with_length,
                    [position_x |-> muon_final.x,
                     position_y |-> muon_final.y,
                     position_z |-> muon_final.z,
                     stopped_muon |-> muon_final.stopped])
    ELSE output

\* Lines 145-191: the Monte-Carlo truth of a frame that is Monte Carlo and
\* not noise, applied to the output built so far.
monte_carlo_truth(self, frame, sim_type, padding_value, output) ==
    LET prim == get_primary_particle_interaction_type_and_elasticity(
                    frame, sim_type, default_padding_value)
        track == get_primary_track_energy_and_inelasticity(frame)
        decay == extract_dbang_decay_length(frame, padding_value)
    IN  IF prim.exc # "" THEN prim
        ELSE IF track.exc # "" THEN track
        \* line 159: None has no attribute energy
        ELSE IF IsNoneParticle(prim.value.MCInIcePrimary) THEN Raise("AttributeError")
        ELSE IF decay.exc # "" THEN decay
        ELSE
        LET MCInIcePrimary == prim.value.MCInIcePrimary
            updated ==
                Update(output,
                       [energy |-> MCInIcePrimary.energy,
                        position_x |-> MCInIcePrimary.pos.x,
                        position_y |-> MCInIcePrimary.pos.y,
                        position_z |-> MCInIcePrimary.pos.z,
                        azimuth |-> MCInIcePrimary.dir.azimuth,
                        zenith |-> MCInIcePrimary.dir.zenith,
                        pid |-> MCInIcePrimary.pdg_encoding,
                        interaction_type |-> prim.value.interaction_type,
                        elasticity |-> prim.value.elasticity,
                        dbang_decay_length |-> decay.value,
                        energy_track |-> track.value.energy_track,
                        inelasticity |-> track.value.inelasticity])
        IN  Return(muon_update(self, MCInIcePrimary, updated))

\* Variant: the Monte-Carlo branch taken for noise frames too.
I3TruthExtractor_call_for_noise(self, frame, padding_value) ==
    IF self.i3_file = None THEN Raise("TypeError")
    ELSE
    LET is_mc == frame_is_montecarlo(frame)
        sim_type == find_data_type(is_mc, self.i3_file)
        output == initial_output(frame, sim_type, padding_value)
    IN  IF frame["I3EventHeader"].sub_event_stream # "InIceSplit"
        THEN Return(output)
        ELSE
        LET flagged == Update(output, filter_flags(frame))
        IN  IF is_mc
            THEN monte_carlo_truth(self, frame, sim_type, padding_value, flagged)
            ELSE Return(flagged)

\* Variant: without the sub-event-stream return of lines 106-107.
I3TruthExtractor_call_any_stream(self, frame, padding_value) ==
    IF self.i3_file = None THEN Raise("TypeError")
    ELSE
    LET is_mc == frame_is_montecarlo(frame)
        is_noise == frame_is_noise(frame)
        sim_type == find_data_type(is_mc, self.i3_file)
        output == initial_output(frame, sim_type, padding_value)
        flagged == Update(output, filter_flags(frame))
    IN  IF is_mc /\ ~is_noise
        THEN monte_carlo_truth(self, frame, sim_type, padding_value, flagged)
        ELSE Return(flagged)

\* I3TruthExtractor.__call__(frame, padding_value), lines 65-193.
I3TruthExtractor_call(self, frame, padding_value) ==
    \* line 377: `"muon" in None`
    IF self.i3_file = None THEN Raise("TypeError")
    ELSE
    LET is_mc == frame_is_montecarlo(frame)
        is_noise == frame_is_noise(frame)
        sim_type == find_data_type(is_mc, self.i3_file)
        output == initial_output(frame, sim_type, padding_value)
    IN  IF frame["I3EventHeader"].sub_event_stream # "InIceSplit"
        THEN Return(output)
        ELSE
        LET flagged == Update(output, filter_flags(frame))
        IN  IF is_mc /\ ~is_noise
            THEN monte_carlo_truth(self, frame, sim_type, padding_value, flagged)
            ELSE Return(flagged)

\* ------------------------------------------------------------ I3Extractor
\* I3Extractor.__init__(name) followed by I3TruthExtractor.__init__'s
\* borders (i3extractor.py 20-27, i3truthextractor.py 25-63).
I3TruthExtractor_init(name, borders) ==
    [cls |-> "I3TruthExtractor",
     i3_file |-> None,
     gcd_file |-> None,
     gcd_dict |-> None,
     calibration |-> None,
     name |-> name,
     borders |-> borders]

\* What dataio.I3File finds at a geometry-file path: "" for a file holding
\* a Geometry and a Calibration frame, else the step of _load_gcd_data that
\* raises ("open": lines 39-41, before any assignment; "calibration": line 43,
\* after line 42 has assigned _gcd_dict).
gcd_A       == <<"g", "c", "d", "A">>
gcd_B       == <<"g", "c", "d", "B">>
gcd_missing == <<"g", "c", "d", "?">>
gcd_nocal   == <<"g", "c", "d", "G">>

gcd_fault(gcd_file) ==
    CASE gcd_file = gcd_missing -> "open"
      [] gcd_file = gcd_nocal -> "calibration"
      [] OTHER -> ""

\* I3Extractor._load_gcd_data(), lines 37-43.
load_gcd_data(self) ==
    IF gcd_fault(self.gcd_file) = "open"
    THEN [self |-> self, exc |-> "RuntimeError", value |-> NoValue]
    ELSE
    LET with_geometry == [self EXCEPT !.gcd_dict = <<"omgeo">> \o self.gcd_file]
    IN  IF gcd_fault(self.gcd_file) = "calibration"
        THEN [self |-> with_geometry, exc |-> "TypeError", value |-> NoValue]
        ELSE [self |-> [with_geometry EXCEPT
                          !.calibration = <<"I3Calibration">> \o self.gcd_file],
              exc |-> "", value |-> NoValue]

\* I3Extractor.set_files(i3_file, gcd_file), lines 29-35.
set_files(self, i3_file, gcd_file) ==
    load_gcd_data([self EXCEPT !.i3_file = i3_file, !.gcd_file = gcd_file])

\* Variant: the vertical pad applied to self.borders in place.
call_effect_padding_borders(self, frame, padding_value) ==
    LET r == I3TruthExtractor_call(self, frame, padding_value)
        padded == <<self.borders[1],
                    <<self.borders[2][1] + vertical_pad,
                      self.borders[2][2] - vertical_pad>> >>
    IN  [self |-> [self EXCEPT !.borders = padded], frame |-> frame,
         exc |-> r.exc, value |-> r.value]

\* The assignments of line 219: the particle of hnl_daughters assigned to
\* and the energy left in it, when the loop of lines 212-221 ends or the
\* assert of line 218 stops it. No entry when nothing is assigned.
merge_writes(frame) ==
    IF "I3MCTree" \notin DOMAIN frame THEN <<>>
    ELSE
    LET mctree == frame["I3MCTree"]
        prims == primaries(mctree)
        p_daughters == IF Len(prims) = 0 THEN <<>>
                       ELSE get_daughters(mctree, prims[1])
        others == {k \in 1..Len(p_daughters) : p_daughters[k].type # "Hadrons"}
        hnl_daughters == IF Len(p_daughters) # 2 \/ others = {} THEN <<>>
                         ELSE get_daughters(mctree, p_daughters[Max(others)])
        merged == {n \in 1..Len(hnl_daughters) :
                     \A k \in 2..n : hnl_daughters[k].pos = hnl_daughters[1].pos}
        E[k \in 1..Len(hnl_daughters)] ==
            IF k = 1 THEN hnl_daughters[1].energy
            ELSE FAdd(E[k - 1], hnl_daughters[k].energy)
    IN  IF Len(hnl_daughters) < 2 \/ Max(merged) < 2 THEN <<>>
        ELSE <<[id |-> hnl_daughters[1].id, energy |-> E[Max(merged)]]>>

\* Variant: get_daughters hands out the tree's own particles, so line 219
\* assigns to the tree.
frame_after_search_in_tree(frame) ==
    LET writes == merge_writes(frame)
    IN  IF writes = <<>> THEN frame
        ELSE [frame EXCEPT !["I3MCTree"].parts[writes[1].id].energy
                                = writes[1].energy]

\* The frame after the decay-length search: get_daughters returns a list of
\* particles of its own (particles are values), so what line 219 assigns
\* stays in that list and the particles of the tree keep their energy.
frame_after_search(frame) == frame

\* The whole effect of extractor(frame, padding_value): the outcome, and the
\* extractor and the frame after the call. Lines 65-285 assign no attribute
\* of self and no key of the frame; the decay-length search runs when the
\* Monte-Carlo branch gets as far as line 168.
call_effect(self, frame, padding_value) ==
    LET r == I3TruthExtractor_call(self, frame, padding_value)
        searched == /\ r.exc = ""
                    /\ frame["I3EventHeader"].sub_event_stream = "InIceSplit"
                    /\ frame_is_montecarlo(frame)
                    /\ ~frame_is_noise(frame)
    IN  [self |-> self,
         frame |-> IF searched THEN frame_after_search(frame) ELSE frame,
         exc |-> r.exc, value |-> r.value]

\* --------------------------------------------------- I3ExtractorCollection
\* isinstance(extractor, I3Extractor)
isinstance_I3Extractor(obj) == obj.cls = "I3TruthExtractor"

\* I3ExtractorCollection.__init__(*extractors), lines 58-64.
I3ExtractorCollection_init(extractors) ==
    IF \E k \in 1..Len(extractors) : ~isinstance_I3Extractor(extractors[k])
    THEN Raise("AssertionError")
    ELSE Return(extractors)

\* I3ExtractorCollection.set_files(i3_file, gcd_file), lines 66-68: members
\* is the list afterwards, calls the set_files calls made on members.
collection_set_files(members, i3_file, gcd_file) ==
    LET R[k \in 0..Len(members)] ==
            IF k = 0 THEN [members |-> members, exc |-> "", calls |-> <<>>]
            ELSE IF R[k - 1].exc # "" THEN R[k - 1]
            ELSE LET r == set_files(members[k], i3_file, gcd_file)
                 IN  [members |-> [R[k - 1].members EXCEPT ![k] = r.self],
                      exc |-> r.exc,
                      calls |-> Append(R[k - 1].calls, <<k, i3_file, gcd_file>>)]
    IN  R[Len(members)]

\* Variant: the outputs listed from the last member to the first.
collection_call_reversed(members, frame) ==
    LET n == Len(members)
        outs == [k \in 1..n |->
                    I3TruthExtractor_call(members[n + 1 - k], frame,
                                          default_padding_value)]
        failing == {k \in 1..n : outs[k].exc # ""}
    IN  IF failing # {} THEN Raise(outs[Min(failing)].exc)
        ELSE Return([k \in 1..n |-> outs[k].value])

\* I3ExtractorCollection.__call__(frame), lines 70-71.
collection_call(members, frame) ==
    LET outs == [k \in 1..Len(members) |->
                    I3TruthExtractor_call(members[k], frame, default_padding_value)]
        failing == {k \in 1..Len(members) : outs[k].exc # ""}
    IN  IF failing # {} THEN Raise(outs[Min(failing)].exc)
        ELSE Return([k \in 1..Len(members) |-> outs[k].value])

\* ================================================================ inputs
\* File paths: up to MaxPathWords words.
PathWords ==
    {s_muon, s_corsika, s_genie, s_noise, s_L2,
     <<"N", "u">>, <<"l", "2">>, <<"u">>, <<"x">>}

RECURSIVE Concat(_)
Concat(ws) == IF ws = <<>> THEN <<>> ELSE Head(ws) \o Concat(Tail(ws))

SeqsUpTo(S, n) == UNION {[1..k -> S] : k \in 0..n}

Paths == {Concat(ws) : ws \in SeqsUpTo(PathWords, MaxPathWords)} \ {<<>>}

\* The paths the extraction runs use.
file_plain == <<"x">>
file_noise == s_noise \o <<"x">>
ExtractionFiles == {file_plain, file_noise, s_muon, s_L2}

PaddingValues == {default_padding_value, -7}

\* Fiducial volumes: [xy outline, (z_min, z_max)].
borders_small ==
    << << <<-500, -500>>, <<500, -500>>, <<500, 500>>, <<-500, 500>> >>,
       <<-500, 500>> >>
borders_large ==
    << << <<-1000, -1000>>, <<1000, -1000>>, <<1000, 1000>>, <<-1000, 1000>> >>,
       <<-1000, 1000>> >>

\* Particles.
Pos(x, y, z) == [x |-> x, y |-> y, z |-> z]
Dir(azimuth, zenith) == [azimuth |-> azimuth, zenith |-> zenith]
vertex == Pos(50, 50, 0)
pos_O == Pos(0, 0, 0)
pos_A == Pos(300, 400, 0)
pos_C == Pos(300, 400, 1200)

Particle(pdg, energy, total_energy, pos, dir, length, type, shape) ==
    [id |-> 0, pdg_encoding |-> pdg, energy |-> energy,
     total_energy |-> total_energy, pos |-> pos, dir |-> dir,
     length |-> length, type |-> type, shape |-> shape]

nu_primary == Particle(14, 10, 2, vertex, Dir(1, 2), 0, "NuMu", "Primary")
nu_named   == Particle(12, 20, 2, pos_A, Dir(2, 1), 0, "NuE", "Primary")
nu_massless == Particle(14, 10, 0, vertex, Dir(1, 2), 0, "NuMu", "Primary")
mu_nan     == Particle(13, NaN, 2, vertex, Dir(0, 1), 300, "MuMinus", "Primary")
Muon(pdg, length, dir) ==
    Particle(pdg, 30, 2, vertex, dir, length, "MuMinus", "Primary")

hadrons(pos) == Particle(-2000001006, 1, 2, pos, Dir(0, 0), 0, "Hadrons", "Cascade")
hnl(pos)     == Particle(2000000014, 1, 2, pos, Dir(0, 0), 0, "unknown", "Dark")
track(pos)   == Particle(13, 1, 2, pos, Dir(0, 0), 100, "MuMinus", "StartingTrack")

\* A node is [p, ds]: a particle and its daughter nodes. Tree(nodes) lists the
\* particles in tree order and gives each its position as id.
Node(p, ds) == [p |-> p, ds |-> ds]

RECURSIVE AddNodes(_, _, _)
AddNodes(t, nodes, par) ==
    IF nodes = <<>> THEN t
    ELSE LET n == Head(nodes)
             here == Len(t.parts) + 1
             t1 == [parts |-> Append(t.parts, [n.p EXCEPT !.id = here]),
                    parent |-> Append(t.parent, par)]
         IN  AddNodes(AddNodes(t1, n.ds, here), Tail(nodes), par)

Tree(nodes) == AddNodes([parts |-> <<>>, parent |-> <<>>], nodes, 0)

Leaves(ps) == [k \in 1..Len(ps) |-> Node(ps[k], <<>>)]

\* The first primary's daughters, by kind.
DaughterOfKind(kind) ==
    CASE kind = "H" -> hadrons(pos_O)
      [] kind = "N" -> hnl(pos_O)
      [] OTHER -> track(pos_O)

\* A neutrino with daughters of the given kinds; daughter g (when there is
\* one) has daughters at the positions gpos.
DecayTree(kinds, g, gpos) ==
    Tree(<<Node(nu_primary,
                [k \in 1..Len(kinds) |->
                    Node(DaughterOfKind(kinds[k]),
                         IF k = g
                         THEN Leaves([j \in 1..Len(gpos) |-> hadrons(gpos[j])])
                         ELSE <<>>)])>>)

DecayTrees ==
    {DecayTree(kinds, g, gpos) :
        kinds \in SeqsUpTo({"H", "N", "T"}, MaxDaughters),
        g \in 1..2,
        gpos \in SeqsUpTo({pos_A, pos_C}, MaxGranddaughters)}
    \cup {Tree(<<>>)}

\* Frames.
Header(stream) ==
    [sub_event_stream |-> stream, run_id |-> 101, sub_run_id |-> 102,
     event_id |-> 103, sub_event_id |-> 104, start_time |-> 105]

Frame(stream, mc, noise) ==
    [I3EventHeader |-> Header(stream), is_montecarlo |-> mc, is_noise |-> noise]

\* With(frame, key, present, v): frame, holding v at key when present.
With(frame, key, present, v) ==
    IF present THEN Update(frame, [k \in {key} |-> v]) ELSE frame

FilterKinds == 0..4
WithFilters(frame, i) ==
    CASE i = 1 -> Update(frame, [FilterMask |->
                        [DeepCoreFilter_13 |-> TRUE, MuonFilter_13 |-> FALSE]])
      [] i = 2 -> Update(frame, [FilterMask |-> [CascadeFilter_13 |-> TRUE],
                                 DeepCoreFilter_13 |-> TRUE])
      [] i = 3 -> Update(frame, [DeepCoreFilter_13 |-> TRUE,
                                 L3_oscNext_bool |-> TRUE,
                                 L4_oscNext_bool |-> FALSE])
      [] i = 4 -> Update(frame, [FilterMask |->
                        [DeepCoreFilter_13 |-> FALSE, CascadeFilter_13 |-> TRUE,
                         MuonFilter_13 |-> TRUE, OnlineL2Filter_17 |-> FALSE],
                                 L7_oscNext_bool |-> TRUE])
      [] OTHER -> frame

TreeKinds == 0..10
SmallTree(i) ==
    CASE i = 1 -> Tree(<<>>)
      [] i = 2 -> Tree(<<Node(nu_primary, <<>>)>>)
      [] i = 3 -> Tree(<<Node(nu_massless, <<>>)>>)
      [] i = 4 -> Tree(<<Node(mu_nan, <<>>)>>)
      [] i = 5 -> Tree(<<Node(mu_nan, <<>>), Node(Muon(13, 300, Dir(0, 1)), <<>>)>>)
      [] i = 6 -> DecayTree(<<"H", "N">>, 2, <<pos_A, pos_A>>)
      [] i = 7 -> DecayTree(<<"N", "H">>, 1, <<pos_A, pos_C>>)
      [] i = 8 -> DecayTree(<<"T", "H">>, 0, <<>>)
      [] i = 9 -> DecayTree(<<"H", "T", "T">>, 2, <<pos_C>>)
      \* a NaN first entry, then the muon with a track daughter
      [] OTHER -> Tree(<<Node(mu_nan, <<>>),
                         Node(Muon(13, 300, Dir(0, 1)),
                              Leaves(<<track(pos_O)>>))>>)

\* i = 0: the frame holds no I3MCTree.
WithTree(frame, i) == With(frame, "I3MCTree", i # 0, SmallTree(i))

NamedKinds == 0..2
WithNamedPrimary(frame, i) ==
    With(frame, "MCInIcePrimary", i # 0, IF i = 1 THEN nu_named ELSE mu_nan)

WithWeights(frame, present) ==
    With(frame, "I3MCWeightDict", present, [InteractionType |-> 2])

WithGenie(frame, present) ==
    With(frame, "I3GENIEResultDict", present, [y |-> 3])

\* A full Monte-Carlo record: a muon tree, interaction weights and generator
\* results.
FullRecord(frame) ==
    WithGenie(WithWeights(
        Update(frame, [I3MCTree |->
            Tree(<<Node(Muon(13, 300, Dir(0, 1)), <<>>)>>)]), TRUE), TRUE)

\* Header and filter variety, with and without a full Monte-Carlo record. A
\* frame flagged Monte Carlo holds a tree or a named primary.
HeaderFrames ==
    {LET f == WithFilters(Frame(c[1], c[2], c[3]), c[4])
     IN  IF c[5] THEN FullRecord(f) ELSE f :
        c \in {c \in {"InIceSplit", "NullSplit"} \X BOOLEAN \X BOOLEAN
                        \X FilterKinds \X BOOLEAN : c[2] => c[5]}}

\* Monte-Carlo variety.
MonteCarloFrames ==
    {WithGenie(WithWeights(WithNamedPrimary(
        WithTree(Frame("InIceSplit", TRUE, FALSE), c[1]), c[2]), c[3]), c[4]) :
        c \in {c \in TreeKinds \X NamedKinds \X BOOLEAN \X BOOLEAN :
                    c[1] # 0 \/ c[2] # 0}}

\* Primaries with a track length, in every direction.
MuonFrames ==
    {Update(Frame("InIceSplit", TRUE, FALSE),
            [I3MCTree |-> Tree(<<Node(Muon(pdg, length, Dir(az, zen)), <<>>)>>)]) :
        pdg \in {13, -13, 14}, length \in {300, 400, 700},
        az \in 0..3, zen \in 0..2}

Frames == HeaderFrames \cup MonteCarloFrames \cup MuonFrames

\* Frames for the decay-length search: every tree shape, and no tree.
DecayFrames ==
    {Update(Frame("InIceSplit", TRUE, FALSE), [I3MCTree |-> t]) : t \in DecayTrees}
    \cup {WithNamedPrimary(Frame("InIceSplit", TRUE, FALSE), 1)}

\* =============================================================== actions
Outcome(op, r) == [op |-> op, exc |-> r.exc, value |-> r.value]

NoCollection == [built |-> FALSE, members |-> <<>>]

\* A disk without files.
NoFiles == [files |-> {}, reversed |-> FALSE]

InitWith(frames, borders) ==
    /\ extractor = I3TruthExtractor_init("truth", borders)
    /\ collection = NoCollection
    /\ event \in frames
    /\ args = [name |-> "truth"]
    /\ ret = Outcome("__init__", Return(NoValue))
    /\ ncalls = 0
    /\ member_calls = <<>>
    /\ filesystem = NoFiles

\* extractor.set_files(i3_file, gcd_file)
SetFiles(i3_file, gcd_file) ==
    LET r == set_files(extractor, i3_file, gcd_file)
    IN  /\ extractor' = r.self
        /\ ret' = Outcome("set_files", r)
        /\ args' = [i3_file |-> i3_file, gcd_file |-> gcd_file]
        /\ UNCHANGED <<collection, event, ncalls, member_calls, filesystem>>

\* extractor(event, padding_value)
Call(padding_value) ==
    /\ ncalls < MaxCalls
    /\ LET r == call_effect(extractor, event, padding_value)
       IN  /\ extractor' = r.self
           /\ event' = r.frame
           /\ ret' = Outcome("__call__", r)
    /\ args' = [padding_value |-> padding_value]
    /\ ncalls' = ncalls + 1
    /\ UNCHANGED <<collection, member_calls, filesystem>>

\* extractor._extract_dbang_decay_length(event, padding_value)
DecayLength(padding_value) ==
    /\ ret' = Outcome("_extract_dbang_decay_length",
                      extract_dbang_decay_length(event, padding_value))
    /\ args' = [padding_value |-> padding_value]
    /\ UNCHANGED <<extractor, collection, event, ncalls, member_calls, filesystem>>

\* The extractor's life: files are set and events extracted, in any order.
Init ==
    \/ InitWith(Frames, borders_small)
    \/ InitWith(MuonFrames, borders_large)

Next ==
    \/ \E i3_file \in ExtractionFiles : SetFiles(i3_file, gcd_A)
    \/ \E padding_value \in PaddingValues : Call(padding_value)

Spec == Init /\ [][Next]_vars

\* The decay-length search alone, on every tree shape.
InitDecay == InitWith(DecayFrames, borders_small)

NextDecay == \E padding_value \in PaddingValues : DecayLength(padding_value)

SpecDecay == InitDecay /\ [][NextDecay]_vars

\* The classification of every path, for data and Monte-Carlo frames: one
\* file pair is set, then events are extracted.
ClassifyFrames ==
    {Frame(stream, mc, FALSE) : stream \in {"InIceSplit", "NullSplit"}, mc \in BOOLEAN}

InitClassify == InitWith(ClassifyFrames, borders_small)

NextClassify ==
    \/ /\ extractor.i3_file = None
       /\ \E i3_file \in Paths : SetFiles(i3_file, gcd_A)
    \/ \E padding_value \in PaddingValues : Call(padding_value)

SpecClassify == InitClassify /\ [][NextClassify]_vars

\* File pairs set one after another, some with a geometry file that does
\* not load, and events extracted in between.
InitContext == InitWith(ClassifyFrames, borders_small)

NextContext ==
    \/ \E i3_file \in {file_plain, s_muon},
          gcd_file \in {gcd_A, gcd_B, gcd_missing, gcd_nocal} :
            SetFiles(i3_file, gcd_file)
    \/ Call(default_padding_value)

SpecContext == InitContext /\ [][NextContext]_vars

\* A collection is built from up to MaxMembers objects, files are broadcast
\* to it and events extracted through it.
CollectionObjects ==
    {I3TruthExtractor_init("truth", borders_small),
     I3TruthExtractor_init("retro", borders_large),
     [cls |-> "dict"]}

CollectionFrames ==
    {Frame("NullSplit", FALSE, FALSE),
     WithNamedPrimary(Frame("InIceSplit", TRUE, FALSE), 1),
     Update(Frame("InIceSplit", TRUE, FALSE),
            [I3MCTree |-> Tree(<<Node(Muon(13, 700, Dir(0, 0)), <<>>)>>)])}

\* I3ExtractorCollection(*extractors)
Construct(extractors) ==
    /\ ~collection.built
    /\ LET r == I3ExtractorCollection_init(extractors)
       IN  /\ collection' = IF r.exc = "" THEN [built |-> TRUE, members |-> r.value]
                            ELSE NoCollection
           /\ ret' = [op |-> "I3ExtractorCollection", exc |-> r.exc,
                      value |-> NoValue]
    /\ args' = [extractors |-> extractors]
    /\ UNCHANGED <<extractor, event, ncalls, member_calls, filesystem>>

\* collection.set_files(i3_file, gcd_file)
CollectionSetFiles(i3_file, gcd_file) ==
    /\ collection.built
    /\ LET r == collection_set_files(collection.members, i3_file, gcd_file)
       IN  /\ collection' = [collection EXCEPT !.members = r.members]
           /\ member_calls' = r.calls
           /\ ret' = [op |-> "collection.set_files", exc |-> r.exc,
                      value |-> NoValue]
    /\ args' = [i3_file |-> i3_file, gcd_file |-> gcd_file]
    /\ UNCHANGED <<extractor, event, ncalls, filesystem>>

\* collection(event)
CollectionCall ==
    /\ collection.built
    /\ ncalls < MaxCalls
    /\ ret' = Outcome("collection.__call__",
                      collection_call(collection.members, event))
    /\ args' = [frame |-> event]
    /\ ncalls' = ncalls + 1
    /\ UNCHANGED <<extractor, collection, event, member_calls, filesystem>>

InitCollection == InitWith(CollectionFrames, borders_small)

NextCollection ==
    \/ \E extractors \in SeqsUpTo(CollectionObjects, MaxMembers) :
            Construct(extractors)
    \/ \E i3_file \in {file_plain, s_muon},
          gcd_file \in {gcd_A, gcd_missing, gcd_nocal} :
            CollectionSetFiles(i3_file, gcd_file)
    \/ CollectionCall

SpecCollection == InitCollection /\ [][NextCollection]_vars

\* ======================================================== find_i3_files
\* utilities/filesys.py. A file is [folder, stem, ext]: folder is the list of
\* directory names down to the file, the file's name is stem.ext.
MaxDirectories == 2

s_gcd == <<"g", "c", "d">>
s_geo == <<"g", "e", "o">>
s_run == <<"r", "u", "n">>
s_bz2 == <<"b", "z", "2">>
s_zst == <<"z", "s", "t">>
s_gz  == <<"g", "z">>

dir_d   == << <<"d">> >>
dir_d_s == << <<"d">>, <<"s">> >>
dir_geo == << s_geo >>

File(folder, stem, ext) == [folder |-> folder, stem |-> stem, ext |-> ext]

\* The files a disk may hold, in the order a directory lists them.
FilePool ==
    << File(dir_d, s_run, s_gz),
       File(dir_d, <<"G", "C", "D">>, s_gz),
       File(dir_d, <<"G", "e", "o">>, s_bz2),
       File(dir_d, s_run, s_bz2),
       File(dir_d_s, s_run, s_gz),
       File(dir_d_s, s_gcd, s_gz),
       File(dir_d_s, s_geo, s_gz),
       File(dir_geo, s_run, s_zst) >>

\* sorted() of the pool's folder names.
SortedFolders == <<dir_d, dir_d_s, dir_geo>>

gcd_rescue_path == <<"r", "e", "s", "c", "u", "e">>

\* os.path.join of the folder's names and the file's name.
RECURSIVE JoinPath(_)
JoinPath(names) ==
    IF Len(names) = 1 THEN names[1]
    ELSE names[1] \o <<"/">> \o JoinPath(Tail(names))

FileName(f) == f.stem \o <<".">> \o f.ext

PathStr(f) == JoinPath(Append(f.folder, FileName(f)))

EndsWith(s, suffix) ==
    /\ Len(suffix) <= Len(s)
    /\ SubSeq(s, Len(s) - Len(suffix) + 1, Len(s)) = suffix

\* is_gcd_file(filename), lines 10-14.
is_gcd_file(filename) ==
    In(s_gcd, Lower(filename)) \/ In(s_geo, Lower(filename))

\* has_extension(filename, extensions), lines 26-29: the pattern has no dot.
has_extension(filename, extensions) ==
    \E k \in 1..Len(extensions) : EndsWith(filename, extensions[k])

\* Variant: a file is an I3 file by its extension alone.
is_i3_file_by_extension(filename) ==
    has_extension(filename, <<s_bz2, s_zst, s_gz>>)

\* is_i3_file(filename), lines 17-23.
is_i3_file(filename) ==
    IF is_gcd_file(Lower(filename)) THEN FALSE
    ELSE IF has_extension(filename, <<s_bz2, s_zst, s_gz>>) THEN TRUE
    ELSE FALSE

IsPrefix(a, b) == Len(a) <= Len(b) /\ SubSeq(b, 1, Len(a)) = a

\* The files on disk in listing order.
Listing(fs) ==
    LET n == Len(FilePool)
        order == [j \in 1..n |-> IF fs.reversed THEN n + 1 - j ELSE j]
    IN  SelectSeq([j \in 1..n |-> [at |-> order[j], file |-> FilePool[order[j]]]],
                  LAMBDA e : e.at \in fs.files)

\* Path(directory).rglob("*." + ext): the files below directory with that
\* extension.
rglob(fs, directory, ext) ==
    {e.file : e \in {Listing(fs)[j] : j \in 1..Len(Listing(fs))}} \cap
    {f \in {FilePool[j] : j \in 1..Len(FilePool)} :
        IsPrefix(directory, f.folder) /\ f.ext = ext}

\* glob(os.path.join(folder, "*." + ext)): the folder's own files with that
\* extension, as paths, in listing order.
glob(fs, folder, ext) ==
    LET here == SelectSeq(Listing(fs),
                          LAMBDA e : e.file.folder = folder /\ e.file.ext = ext)
    IN  [j \in 1..Len(here) |-> PathStr(here[j].file)]

i3_patterns == <<s_bz2, s_zst, s_gz>>

\* Lines 64-79 for one folder and one pattern: the I3 files and the GCD file
\* paired with each.
folder_lists(fs, folder, ext, gcd_rescue) ==
    LET folder_files == glob(fs, folder, ext)
        folder_i3_files == SelectSeq(folder_files, is_i3_file)
        folder_gcd_files == SelectSeq(folder_files, is_gcd_file)
        gcd == IF Len(folder_gcd_files) = 0 THEN <<gcd_rescue>>
               ELSE folder_gcd_files
    IN  IF Len(folder_gcd_files) > 1 THEN Raise("AssertionError")
        ELSE Return([i3_files |-> folder_i3_files,
                     gcd_files |-> [j \in 1..Len(folder_i3_files) |-> gcd[1]]])

\* The (folder, pattern) pairs lines 55-64 visit, in order.
RECURSIVE Visits(_, _)
Visits(fs, directories) ==
    IF directories = <<>> THEN <<>>
    ELSE LET directory == Head(directories)
             of_pattern(ext) ==
                 LET folders == SelectSeq(SortedFolders,
                        LAMBDA fo : \E f \in rglob(fs, directory, ext) :
                                        f.folder = fo)
                 IN  [j \in 1..Len(folders) |-> [folder |-> folders[j], ext |-> ext]]
         IN  of_pattern(i3_patterns[1]) \o of_pattern(i3_patterns[2])
                \o of_pattern(i3_patterns[3]) \o Visits(fs, Tail(directories))

\* find_i3_files(directories, gcd_rescue), lines 32-81. directories is
\* [str |-> TRUE, name |-> a directory] or [str |-> FALSE, list |-> a list].
find_i3_files(fs, directories, gcd_rescue) ==
    LET dirs == IF directories.str THEN <<directories.name>>
                ELSE directories.list
        visits == Visits(fs, dirs)
        R[k \in 0..Len(visits)] ==
            IF k = 0 THEN Return([i3_files |-> <<>>, gcd_files |-> <<>>])
            ELSE IF R[k - 1].exc # "" THEN R[k - 1]
            ELSE LET r == folder_lists(fs, visits[k].folder, visits[k].ext,
                                       gcd_rescue)
                 IN  IF r.exc # "" THEN r
                     ELSE Return([i3_files |-> R[k - 1].value.i3_files
                                                \o r.value.i3_files,
                                  gcd_files |-> R[k - 1].value.gcd_files
                                                \o r.value.gcd_files])
    IN  R[Len(visits)]

Directories == {dir_d, dir_d_s, dir_geo}

DirectoryArguments ==
    {[str |-> TRUE, name |-> d] : d \in Directories}
    \cup {[str |-> FALSE, list |-> ds] :
            ds \in SeqsUpTo(Directories, MaxDirectories)}

Disks == {[files |-> F, reversed |-> b] :
            F \in SUBSET (1..Len(FilePool)), b \in BOOLEAN}

\* find_i3_files(directories, gcd_rescue_path), once on each disk: the
\* function keeps nothing between calls.
FindI3Files(directories) ==
    /\ ret.op = "__init__"
    /\ ret' = Outcome("find_i3_files",
                      find_i3_files(filesystem, directories, gcd_rescue_path))
    /\ args' = [directories |-> directories, gcd_rescue |-> gcd_rescue_path]
    /\ UNCHANGED <<extractor, collection, event, ncalls, member_calls,
                   filesystem>>

InitFiles ==
    /\ extractor = I3TruthExtractor_init("truth", borders_small)
    /\ collection = NoCollection
    /\ event = Frame("NullSplit", FALSE, FALSE)
    /\ args = [name |-> "truth"]
    /\ ret = Outcome("__init__", Return(NoValue))
    /\ ncalls = 0
    /\ member_calls = <<>>
    /\ filesystem \in Disks

NextFiles == \E directories \in DirectoryArguments : FindI3Files(directories)

SpecFiles == InitFiles /\ [][NextFiles]_vars

\* ================================================================ claims
OutputFields ==
    {"energy", "position_x", "position_y", "position_z", "azimuth", "zenith",
     "pid", "event_time", "sim_type", "interaction_type", "elasticity",
     "RunID", "SubrunID", "EventID", "SubEventID", "dbang_decay_length",
     "track_length", "stopped_muon", "energy_track", "inelasticity",
     "DeepCoreFilter_13", "CascadeFilter_13", "MuonFilter_13",
     "OnlineL2Filter_17", "L3_oscNext_bool", "L4_oscNext_bool",
     "L5_oscNext_bool", "L6_oscNext_bool", "L7_oscNext_bool"}

Returned == ret.op = "__call__" /\ ret.exc = ""

\* padding_value of the most recent __call__ or decay-length search.
padding == args.padding_value

InIceSplit == event["I3EventHeader"].sub_event_stream = "InIceSplit"

MonteCarloTruth == InIceSplit /\ event["is_montecarlo"] /\ ~event["is_noise"]

\* set_files assigns both paths, so an unset geometry path means it never ran.
FilesNeverSet == extractor.gcd_file = None

\* C1: whenever __call__ returns, for any kind of record, the key set of the
\* returned map is exactly the fixed set of 29 field names.
C1_FixedFieldSet ==
    /\ Cardinality(OutputFields) = 29
    /\ Returned => DOMAIN ret.value = OutputFields

\* C1 witness: a call that ran every update step (filters, truth, muon).
C1_Witness ==
    /\ Returned
    /\ MonteCarloTruth
    /\ "FilterMask" \in DOMAIN event
    /\ ret.value["DeepCoreFilter_13"] = 1
    /\ ret.value["stopped_muon"] = 1

\* C2: once files have been set, __call__ never raises: it always ends by
\* returning an output record.
C2_NeverRaises ==
    (ret.op = "__call__" /\ ~FilesNeverSet) => ret.exc = ""

\* C4: a call on an extractor whose files were never set fails with a
\* MissingContextError, not with another error and not with an output.
C4_MissingContextError ==
    (ret.op = "__call__" /\ FilesNeverSet) => ret.exc = "MissingContextError"

\* C3: for any two padding values p and q the outputs of extract(record, p)
\* and extract(record, q) differ exactly in the default-filled fields, each
\* equal to p in the one and q in the other, and agree on the computed
\* fields; interaction_type and elasticity are default-filled when their
\* source maps are absent.
C3_PaddingParameterized ==
    Returned =>
        /\ "I3MCWeightDict" \notin DOMAIN event
                => ret.value["interaction_type"] = padding
        /\ "I3GENIEResultDict" \notin DOMAIN event
                => ret.value["elasticity"] = padding
        /\ \A q \in PaddingValues :
             LET other == I3TruthExtractor_call(extractor, event, q)
             IN  /\ other.exc = ""
                 /\ \A f \in OutputFields :
                      \/ ret.value[f] = other.value[f]
                      \/ ret.value[f] = padding /\ other.value[f] = q

\* C5: the simulation type is one of the seven tags: the tag of the last
\* matching rule in the order muon, corsika, genie-or-nu (any case), noise,
\* L2, and data or NuGen by the Monte-Carlo flag when no rule matches; a
\* path with both corsika and muon and no later rule's word is corsika.
SimTypes == {"data", "NuGen", "muongun", "corsika", "genie", "noise", "dbang"}

RuleTags == <<"muongun", "corsika", "genie", "noise", "dbang">>

RuleMatches(i, path) ==
    CASE i = 1 -> In(s_muon, path)
      [] i = 2 -> In(s_corsika, path)
      [] i = 3 -> \/ In(s_genie, path)
                  \/ \E n \in {"n", "N"}, u \in {"u", "U"} : In(<<n, u>>, path)
      [] i = 4 -> In(s_noise, path)
      [] OTHER -> In(s_L2, path)

C5_LastMatchingRule ==
    Returned =>
        LET path == extractor.i3_file
            matching == {i \in 1..5 : RuleMatches(i, path)}
            sim_type == ret.value["sim_type"]
        IN  /\ sim_type \in SimTypes
            /\ matching # {} => sim_type = RuleTags[Max(matching)]
            /\ matching = {} =>
                    sim_type = (IF event["is_montecarlo"] THEN "NuGen" ELSE "data")
            /\ matching = {1, 2} => sim_type = "corsika"

C5_Witness ==
    /\ Returned
    /\ {i \in 1..5 : RuleMatches(i, extractor.i3_file)} = {1, 2}
    /\ extractor.i3_file[1] = "m"
    /\ ret.value["sim_type"] = "corsika"

\* C6: once files are set, a record whose sub-event stream is not InIceSplit
\* yields an output whose every field other than event_time, sim_type,
\* RunID, SubrunID, EventID and SubEventID equals the padding value,
\* whatever filter maps, flags and Monte-Carlo objects the record holds.
HeaderFields ==
    {"event_time", "sim_type", "RunID", "SubrunID", "EventID", "SubEventID"}

C6_OtherStreamsPadded ==
    (ret.op = "__call__" /\ ~FilesNeverSet /\ ~InIceSplit) =>
        /\ ret.exc = ""
        /\ \A f \in OutputFields \ HeaderFields : ret.value[f] = padding

C6_Witness ==
    /\ Returned
    /\ ~InIceSplit
    /\ event["is_montecarlo"] /\ ~event["is_noise"]
    /\ "FilterMask" \in DOMAIN event
    /\ "I3MCTree" \in DOMAIN event
    /\ ret.value["pid"] = padding
    /\ ret.value["DeepCoreFilter_13"] = padding
    /\ ret.value["RunID"] = event["I3EventHeader"].run_id

\* C7: consecutive extract calls on the same record with the same padding
\* value have identical outcomes, and no extract call changes the
\* extractor's file paths, geometry, calibration or borders.
C7_Idempotent ==
    [][ncalls' = ncalls + 1 =>
            /\ extractor' = extractor
            /\ (ret.op = "__call__" /\ args' = args) => ret' = ret]_vars

C7_Witness ==
    /\ ncalls = 2
    /\ Returned
    /\ MonteCarloTruth
    /\ extractor.borders[2][2] = 1000
    /\ ret.value["stopped_muon"] = 1

\* C8: when the frame has a tree, the decay-length search raises nothing;
\* its value is the distance between the hadronic daughter and the
\* candidate's first daughter when the first primary has exactly two
\* daughters, one of them of Hadrons type, and the other (the candidate) has
\* at least one daughter and all its daughters at one position; in every
\* other case its value is the padding value.
TreeChildren(t, par) == {j \in 1..Len(t.parts) : t.parent[j] = par}

SquaredDistance(a, b) ==
    (a.x - b.x) * (a.x - b.x) + (a.y - b.y) * (a.y - b.y)
        + (a.z - b.z) * (a.z - b.z)

DoubleBang(t) ==
    /\ TreeChildren(t, 0) # {}
    /\ LET daughters == TreeChildren(t, Min(TreeChildren(t, 0)))
           hadronic == {j \in daughters : t.parts[j].type = "Hadrons"}
       IN  /\ Cardinality(daughters) = 2
           /\ Cardinality(hadronic) = 1
           /\ \E c \in daughters \ hadronic :
                /\ TreeChildren(t, c) # {}
                /\ \A a, b \in TreeChildren(t, c) : t.parts[a].pos = t.parts[b].pos

C8_DecayLength ==
    (ret.op = "_extract_dbang_decay_length" /\ "I3MCTree" \in DOMAIN event) =>
        LET t == event["I3MCTree"] IN
        /\ ret.exc = ""
        /\ ~DoubleBang(t) => ret.value = padding
        /\ DoubleBang(t) =>
             LET daughters == TreeChildren(t, Min(TreeChildren(t, 0)))
                 h == CHOOSE j \in daughters : t.parts[j].type = "Hadrons"
                 c == CHOOSE j \in daughters : j # h
                 first == Min(TreeChildren(t, c))
             IN  /\ ret.value >= 0
                 /\ ret.value * ret.value
                        = SquaredDistance(t.parts[h].pos, t.parts[first].pos)

C8_Witness ==
    /\ ret.op = "_extract_dbang_decay_length"
    /\ "I3MCTree" \in DOMAIN event
    /\ DoubleBang(event["I3MCTree"])
    /\ Len(event["I3MCTree"].parts) = 5
    /\ ret.value = 500
    /\ padding = -7

\* C9: for a returned Monte-Carlo, non-noise InIceSplit event whose resolved
\* primary has |pid| = 13, track_length is the primary's length, the
\* position is the vertex minus track_length times the direction, and
\* stopped_muon is 1 iff that point is inside the outline shrunk by the
\* horizontal pad and strictly between z_min + 100 and z_max - 100, else 0;
\* for any other pid track_length and stopped_muon are the padding value and
\* the position is the vertex.
ResolvedPrimary ==
    LET first == IF "MCInIcePrimary" \in DOMAIN event
                 THEN event["MCInIcePrimary"]
                 ELSE event["I3MCTree"].parts[1]
    IN  IF IsNaN(first.energy) THEN event["I3MCTree"].parts[2] ELSE first

StoppingPoint(p) ==
    [x |-> p.pos.x - p.length * Cos(p.dir.azimuth) * Sin(p.dir.zenith),
     y |-> p.pos.y - p.length * Sin(p.dir.azimuth) * Sin(p.dir.zenith),
     z |-> p.pos.z - p.length * Cos(p.dir.zenith)]

\* The outlines are rectangles from corner 1 to the opposite corner 3.
InsideFiducial(borders, q) ==
    /\ borders[1][1][1] + 100 < q.x /\ q.x < borders[1][3][1] - 100
    /\ borders[1][1][2] + 100 < q.y /\ q.y < borders[1][3][2] - 100
    /\ borders[2][1] + 100 < q.z /\ q.z < borders[2][2] - 100

C10_Collection ==
    /\ ret.op = "I3ExtractorCollection" =>
         IF \E k \in 1..Len(args.extractors) :
                args.extractors[k].cls # "I3TruthExtractor"
         THEN ret.exc = "AssertionError" /\ ~collection.built
         ELSE /\ ret.exc = ""
              /\ collection.built
              /\ collection.members = args.extractors
    /\ ret.op = "collection.set_files" =>
         /\ member_calls = [k \in 1..Len(member_calls) |->
                                <<k, args.i3_file, args.gcd_file>>]
         /\ ret.exc = "" =>
              /\ Len(member_calls) = Len(collection.members)
              /\ \A k \in 1..Len(collection.members) :
                    /\ collection.members[k].i3_file = args.i3_file
                    /\ collection.members[k].gcd_file = args.gcd_file
    /\ (ret.op = "collection.__call__" /\ ret.exc = "") =>
         /\ Len(ret.value) = Len(collection.members)
         /\ \A i \in 1..Len(collection.members) :
              ret.value[i] = I3TruthExtractor_call(collection.members[i], event,
                                                   default_padding_value).value

C10_Witness ==
    /\ ret.op = "collection.__call__"
    /\ ret.exc = ""
    /\ Len(collection.members) = 2
    /\ Len(member_calls) = 2
    /\ ret.value[1]["stopped_muon"] = 0
    /\ ret.value[2]["stopped_muon"] = 1

\* C11: find_i3_files returns two lists of equal length; every I3 file under
\* the given directories appears exactly once; the entry at the same index
\* of the GCD list is the GCD file of that file's folder with the same
\* extension, or gcd_rescue when there is none; and no file is classified
\* as both an I3 file and a GCD file.
FilesOnDisk == {FilePool[j] : j \in filesystem.files}

I3FilesOnDisk == {f \in FilesOnDisk : is_i3_file(PathStr(f))}

GivenDirectories ==
    IF args.directories.str THEN <<args.directories.name>>
    ELSE args.directories.list

ListingDirectories(f) ==
    {k \in 1..Len(GivenDirectories) : IsPrefix(GivenDirectories[k], f.folder)}

Occurrences(list, x) == Cardinality({j \in 1..Len(list) : list[j] = x})

PairedGcd(f) ==
    LET gcds == {g \in FilesOnDisk :
                    /\ g.folder = f.folder
                    /\ g.ext = f.ext
                    /\ is_gcd_file(PathStr(g))}
    IN  IF gcds = {} THEN gcd_rescue_path
        ELSE PathStr(CHOOSE g \in gcds : TRUE)

FoundFiles == ret.op = "find_i3_files" /\ ret.exc = ""

PairedLists ==
    /\ Len(ret.value.i3_files) = Len(ret.value.gcd_files)
    /\ \A j \in 1..Len(ret.value.i3_files) :
          /\ \E f \in I3FilesOnDisk :
                /\ PathStr(f) = ret.value.i3_files[j]
                /\ ret.value.gcd_files[j] = PairedGcd(f)
          /\ ~is_gcd_file(ret.value.i3_files[j])
    /\ \A f \in FilesOnDisk :
          ~(is_i3_file(PathStr(f)) /\ is_gcd_file(PathStr(f)))

TruthFields ==
    {"energy", "position_x", "position_y", "position_z", "azimuth", "zenith",
     "pid", "interaction_type", "elasticity", "dbang_decay_length",
     "track_length", "stopped_muon", "energy_track", "inelasticity"}

TruthObjects ==
    {"I3MCTree", "MCInIcePrimary", "I3MCWeightDict", "I3GENIEResultDict"}

Without(frame, keys) == [k \in DOMAIN frame \ keys |-> frame[k]]

C12_TruthGated ==
    (ret.op = "__call__" /\ ~FilesNeverSet /\ InIceSplit /\ ~MonteCarloTruth) =>
        /\ ret.exc = ""
        /\ \A f \in TruthFields : ret.value[f] = padding
        /\ I3TruthExtractor_call(extractor, Without(event, TruthObjects),
                                 padding) = [exc |-> "", value |-> ret.value]

C12_Witness ==
    /\ Returned
    /\ InIceSplit
    /\ event["is_montecarlo"] /\ event["is_noise"]
    /\ TruthObjects \ {"MCInIcePrimary"} \subseteq DOMAIN event
    /\ ret.value["energy"] = -7
    /\ ret.value["DeepCoreFilter_13"] = 1

\* C13: the resolved primary, which supplies energy, direction and pid, is
\* the named MCInIcePrimary whenever the record has one; otherwise the
\* tree's first entry, or the tree's second entry when the first entry's
\* energy is NaN. The second entry is used only when the first entry was.
NamedOrFirstPrimary ==
    IF "MCInIcePrimary" \in DOMAIN event THEN event["MCInIcePrimary"]
    ELSE IF IsNaN(event["I3MCTree"].parts[1].energy)
         THEN event["I3MCTree"].parts[2]
         ELSE event["I3MCTree"].parts[1]

C13_PrimaryResolution ==
    (Returned /\ MonteCarloTruth) =>
        /\ ret.value["energy"] = NamedOrFirstPrimary.energy
        /\ ret.value["pid"] = NamedOrFirstPrimary.pdg_encoding
        /\ ret.value["azimuth"] = NamedOrFirstPrimary.dir.azimuth
        /\ ret.value["zenith"] = NamedOrFirstPrimary.dir.zenith

\* C14: in every returned Monte-Carlo, non-noise record, energy_track is the
\* sum of total_energy over the StartingTrack and Dark daughters of the
\* particle that supplies energy, direction and pid, and inelasticity is
\* 1 - energy_track / that particle's total_energy.
TracksOf(p) ==
    IF /\ "I3MCTree" \in DOMAIN event
       /\ p.id \in 1..Len(event["I3MCTree"].parts)
       /\ event["I3MCTree"].parts[p.id] = p
    THEN SelectSeq(get_daughters(event["I3MCTree"], p), IsTrack)
    ELSE <<>>

C14_TrackEnergyOfResolvedPrimary ==
    (Returned /\ MonteCarloTruth) =>
        LET p == ResolvedPrimary
            energy_track == SumTotalEnergy(TracksOf(p))
        IN  /\ ret.value["energy"] = p.energy
            /\ ret.value["pid"] = p.pdg_encoding
            /\ ret.value["energy_track"] = energy_track
            /\ p.total_energy # 0 =>
                  ret.value["inelasticity"] = 1 - energy_track \div p.total_energy

\* C15: in the record returned for an InIceSplit event each filter flag is
\* 0 or 1 when its source is present and the padding value otherwise, each
\* on its own: the four filter flags come from the FilterMask when the
\* record has one, the top-level DeepCoreFilter_13 counts only when the
\* record has no FilterMask, and each level flag comes from its own field.
ZeroOrOne(b) == IF b THEN 1 ELSE 0

ExpectedFlag(name) ==
    IF name \in LevelNames
    THEN IF name \in DOMAIN event THEN ZeroOrOne(event[name]) ELSE padding
    ELSE IF "FilterMask" \in DOMAIN event
    THEN IF name \in DOMAIN event["FilterMask"]
         THEN ZeroOrOne(event["FilterMask"][name])
         ELSE padding
    ELSE IF name = "DeepCoreFilter_13" /\ name \in DOMAIN event
    THEN ZeroOrOne(event[name])
    ELSE padding

C15_FilterFlags ==
    (Returned /\ InIceSplit) =>
        \A name \in FilterNames \cup LevelNames :
            ret.value[name] = ExpectedFlag(name)

C15_Witness ==
    /\ Returned
    /\ InIceSplit
    /\ "FilterMask" \in DOMAIN event
    /\ "DeepCoreFilter_13" \notin DOMAIN event["FilterMask"]
    /\ "DeepCoreFilter_13" \in DOMAIN event
    /\ ret.value["DeepCoreFilter_13"] = -7
    /\ ret.value["CascadeFilter_13"] = 1
    /\ ret.value["L3_oscNext_bool"] = -7

\* C16: after any sequence of set_files calls, failing ones included, the
\* extractor's geometry and calibration are those of the geometry file it
\* holds, whose path was set together with the event-file path it holds; a
\* set_files that returns leaves the pair it was given; so the sim_type of
\* an extraction is that of the event file whose geometry is held.
GeometryHeldFor(gcd_file) ==
    /\ extractor.gcd_file = gcd_file
    /\ extractor.gcd_dict = <<"omgeo">> \o gcd_file
    /\ extractor.calibration = <<"I3Calibration">> \o gcd_file

C16_ContextFromOnePair ==
    /\ ~FilesNeverSet => GeometryHeldFor(extractor.gcd_file)
    /\ (ret.op = "set_files" /\ ret.exc = "") =>
            /\ extractor.i3_file = args.i3_file
            /\ GeometryHeldFor(args.gcd_file)
    /\ Returned =>
            /\ GeometryHeldFor(extractor.gcd_file)
            /\ ret.value["sim_type"]
                 = find_data_type(event["is_montecarlo"], extractor.i3_file)

====================================================================
